---- MODULE Spec2Model ----
(***************************************************************************)
(* A model of src/app.py: a Streamlit script that removes the background   *)
(* of uploaded images with rembg and lets the user refine the mask with    *)
(* green (keep) and red (remove) brush strokes.                            *)
(*                                                                         *)
(* Streamlit re-executes the whole script on every interaction.  One run   *)
(* of the script is modelled as a loop over uploaded_files, one step       *)
(* (ProcessFile) per iteration of the `for file in uploaded_files` loop;   *)
(* the user's interactions (upload, sidebar, brush mode, strokes, the      *)
(* clear and apply buttons) each start a run.                              *)
(*                                                                         *)
(* Pixels are pairs <<x, y>>, 1-based.                                     *)
(***************************************************************************)
EXTENDS Integers, Sequences, FiniteSets, TLC

(***************************************************************************)
(* Bounds of the model.                                                    *)
(***************************************************************************)
\* longest batch of files the uploader holds
MaxFiles == 2
\* uploads the user makes in a session
MaxUploads == 2
\* strokes the user draws in a session
MaxStrokes == 2
\* the count of executions of the segmentation body saturates here
MaxSegCalls == 2

(***************************************************************************)
(* Double-precision arithmetic, as far as `int(h * (max_width / w))`       *)
(* needs it: a positive double is [m, e], m its significand as a bit       *)
(* string (most significant first, leading 1) and e the weight of the      *)
(* last bit; the value is m * 2^e.                                         *)
(***************************************************************************)
\* F applied to the value of x, x evaluated once
Then(x, F(_)) == CHOOSE r \in {F(v) : v \in {x}} : TRUE

MantissaBits == 53
LimbBits == 13
QuotLimbs == 6

RECURSIVE Pow2(_)
Pow2(k) == IF k = 0 THEN 1 ELSE 2 * Pow2(k - 1)

LimbBase == Pow2(LimbBits)

RECURSIVE PowMod(_, _)
PowMod(i, w) == IF i = 0 THEN 1 % w ELSE (PowMod(i - 1, w) * LimbBase) % w

\* bit j (1 = most significant) of a digit of LimbBits bits
DigitBit(d, j) == (d \div Pow2(LimbBits - j)) % 2

\* the bits of a string of digits, most significant first
DigitsToBits(ds) ==
    <<>> \o [n \in 1..(Len(ds) * LimbBits) |->
                DigitBit(ds[((n - 1) \div LimbBits) + 1], ((n - 1) % LimbBits) + 1)]

RECURSIVE BitsToInt(_)
BitsToInt(bits) ==
    IF bits = <<>> THEN 0
    ELSE 2 * BitsToInt(SubSeq(bits, 1, Len(bits) - 1)) + bits[Len(bits)]

IncrBits(bits) ==
    LET zeros == {i \in 1..Len(bits) : bits[i] = 0}
    IN  IF zeros = {} THEN <<1>> \o [i \in 1..Len(bits) |-> 0]
        ELSE LET z == CHOOSE i \in zeros : \A j \in zeros : j <= i
             IN  [i \in 1..Len(bits) |->
                    IF i < z THEN bits[i] ELSE IF i = z THEN 1 ELSE 0]

\* The double nearest (ties to even) to the positive number whose binary
\* digits are `bits`, the last of weight 2^e; `more` tells of nonzero digits
\* beyond the last.
RoundNearestEven(bits, e, more) ==
    LET ones == {i \in 1..Len(bits) : bits[i] = 1}
        lead == CHOOSE i \in ones : \A j \in ones : i <= j
        n == Len(bits) - lead + 1
    IN  IF n <= MantissaBits
        THEN [m |-> SubSeq(bits, lead, Len(bits)), e |-> e]
        ELSE LET top == SubSeq(bits, lead, lead + MantissaBits - 1)
                 guard == bits[lead + MantissaBits]
                 sticky == more \/ \E i \in (lead + MantissaBits + 1)..Len(bits) :
                                       bits[i] = 1
                 e2 == e + (n - MantissaBits)
                 inc == IncrBits(top)
             IN  IF ~(guard = 1 /\ (sticky \/ top[MantissaBits] = 1))
                 THEN [m |-> top, e |-> e2]
                 ELSE IF Len(inc) > MantissaBits
                      THEN [m |-> SubSeq(inc, 1, MantissaBits), e |-> e2 + 1]
                      ELSE [m |-> inc, e |-> e2]

\* a / w in double precision, for integers 0 < a < w (long division in
\* base 2^LimbBits, then rounding)
FloatDiv(a, w) ==
    LET digits == <<>> \o [i \in 1..QuotLimbs |->
                              (((a * PowMod(i - 1, w)) % w) * LimbBase) \div w]
        rem == (a * PowMod(QuotLimbs, w)) % w
        bits(ds) == DigitsToBits(ds)
        round(b) == RoundNearestEven(b, 0 - QuotLimbs * LimbBits, rem > 0)
    IN  Then(Then(digits, bits), round)

\* h * q in double precision, for an integer h > 0 and a double q
FloatMulIntOf(h, q) ==
    LET nl == ((Len(q.m) - 1) \div LimbBits) + 1
        pad == nl * LimbBits - Len(q.m)
        padded == [i \in 1..pad |-> 0] \o q.m
        limb(j) == BitsToInt(SubSeq(padded, (j - 1) * LimbBits + 1, j * LimbBits))
        carry[j \in 1..(nl + 1)] ==
            IF j = nl + 1 THEN 0 ELSE (h * limb(j) + carry[j + 1]) \div LimbBase
        out == [j \in 1..nl |-> (h * limb(j) + carry[j + 1]) % LimbBase]
        c1 == carry[1]
        digits == <<c1 \div LimbBase, c1 % LimbBase>> \o out
        bits(ds) == DigitsToBits(ds)
        round(b) == RoundNearestEven(b, q.e, FALSE)
    IN  Then(Then(digits, bits), round)

FloatMulInt(h, q) == LET mul(v) == FloatMulIntOf(h, v) IN Then(q, mul)

\* int(x) of a positive double: truncation toward zero
FloatToIntOf(x) ==
    LET n == Len(x.m) + x.e
    IN  IF n <= 0 THEN 0 ELSE BitsToInt(SubSeq(x.m, 1, n))

FloatToInt(x) == Then(x, FloatToIntOf)

\* int(h * (max_width / w)), for 0 < max_width < w and h > 0
ScaledHeight(h, max_width, w) == FloatToInt(FloatMulInt(h, FloatDiv(max_width, w)))

(***************************************************************************)
(* Sizes and resampling.                                                   *)
(***************************************************************************)
CANVAS_MAX_W == 1024

Grid(w, h) == (1..w) \X (1..h)

\* The size the canvas gets for an original of size orig_w x orig_h.
canvas_size(orig_w, orig_h) ==
    IF orig_w > CANVAS_MAX_W
    THEN <<CANVAS_MAX_W, ScaledHeight(orig_h, CANVAS_MAX_W, orig_w)>>
    ELSE <<orig_w, orig_h>>

\* The size compose_on_background pastes at.
compose_size(w, h, max_width) ==
    IF max_width > 0 /\ w > max_width
    THEN <<max_width, ScaledHeight(h, max_width, w)>>
    ELSE <<w, h>>

\* Image.resize(..., Image.NEAREST): the source index (1-based) sampled for
\* index i of an axis resized from n_in to n_out, floor((i - 1/2) * n_in / n_out).
NearestIndex(i, n_in, n_out) == (((2 * i - 1) * n_in) \div (2 * n_out)) + 1

NearestPixel(p, w_in, h_in, w_out, h_out) ==
    <<NearestIndex(p[1], w_in, w_out), NearestIndex(p[2], h_in, h_out)>>

(***************************************************************************)
(* Boolean arrays (numpy, dtype=bool) with numpy's broadcasting.  An array *)
(* of shape (h, w) is [w, h, fill, px]: the pixels in px have the value    *)
(* ~fill and all the others the value fill, so that an array of a wide     *)
(* image with a few marked pixels stays small.                             *)
(***************************************************************************)
zeros_hw(h, w) == [w |-> w, h |-> h, fill |-> FALSE, px |-> {}]

\* a[p]
At(a, p) == IF p \in a.px THEN ~a.fill ELSE a.fill

\* the pixels of a that are true, for an array that is false outside px
TruePixels(a) == {p \in a.px : At(a, p)}

\* the index of a that numpy's broadcasting reads for index p of the result
BroadcastIndex(a, p) == <<IF a.w = 1 THEN 1 ELSE p[1], IF a.h = 1 THEN 1 ELSE p[2]>>

BroadcastAt(a, p) == At(a, BroadcastIndex(a, p))

\* b can be broadcast to the shape of a (a |= b does not raise)
BroadcastsInto(b, a) == (b.w = a.w \/ b.w = 1) /\ (b.h = a.h \/ b.h = 1)

\* a and b can be broadcast together (a | b does not raise)
BroadcastsWith(a, b) ==
    /\ (a.w = b.w \/ a.w = 1 \/ b.w = 1)
    /\ (a.h = b.h \/ a.h = 1 \/ b.h = 1)

BroadcastW(a, b) == IF a.w = 1 THEN b.w ELSE a.w
BroadcastH(a, b) == IF a.h = 1 THEN b.h ELSE a.h

\* the indices of a w x h result that read a pixel of a.px
BroadcastPx(a, w, h) ==
    IF a.w = w /\ a.h = h THEN a.px
    ELSE {p \in Grid(w, h) : BroadcastIndex(a, p) \in a.px}

\* a |= b, for b that broadcasts into a; both are false outside px
InPlaceOr(a, b) == [a EXCEPT !.px = @ \cup BroadcastPx(b, a.w, a.h)]

\* a[:] = False
FillFalse(a) == [a EXCEPT !.fill = FALSE, !.px = {}]

\* The indices of an axis of n_out that NEAREST fills from index q of an
\* axis of n_in.
NearestSources(q, n_in, n_out) ==
    {i \in (((q - 1) * n_out) \div n_in)..(((q * n_out) \div n_in) + 1) :
        i >= 1 /\ i <= n_out /\ NearestIndex(i, n_in, n_out) = q}

\* The pixels of a w_out x h_out resize (NEAREST) that are filled from the
\* pixels S of the w_in x h_in source.
NearestPreimage(S, w_in, h_in, w_out, h_out) ==
    UNION {NearestSources(q[1], w_in, w_out) \X NearestSources(q[2], h_in, h_out) :
             q \in S}

(***************************************************************************)
(* The files the user can upload.  bytes is the content of the file, name  *)
(* its file name; two files have the same name and different contents.     *)
(***************************************************************************)
FileA1 == [name |-> "a.png", bytes |-> "A1"]
FileA2 == [name |-> "a.png", bytes |-> "A2"]
FileB  == [name |-> "b.png", bytes |-> "B"]
FileX  == [name |-> "c.png", bytes |-> "X"]

Catalogue == {FileA1, FileA2, FileB, FileX}
Names == {f.name : f \in Catalogue}
Contents == {f.bytes : f \in Catalogue}

\* Image.open(...).convert("RGB") succeeds
Decodable(bytes) == bytes # "X"

\* orig_pil.size
ImageSize(bytes) ==
    CASE bytes = "A1" -> <<2, 1>>
      [] bytes = "A2" -> <<1, 1>>
      [] bytes = "B"  -> <<2 * CANVAS_MAX_W, 2>>
      [] OTHER -> <<0, 0>>

\* orig_pil.size and (canvas_w, canvas_h) of lines 137-143, for each content
OrigSize == [b \in Contents |-> ImageSize(b)]
CanvasSize == [b \in Contents |-> canvas_size(ImageSize(b)[1], ImageSize(b)[2])]

Green == <<0, 255, 0>>
Red == <<255, 0, 0>>
Grey == <<90, 100, 110>>

\* the pixels of orig_pil; B is of one colour
OrigPixel(bytes, p) ==
    CASE bytes = "A1" -> IF p = <<1, 1>> THEN Grey ELSE Green
      [] bytes = "A2" -> Red
      [] OTHER -> Grey

(***************************************************************************)
(* 8-bit images (PIL mode "L"): [w, h, dflt, px], px giving the pixels     *)
(* whose value is not dflt.                                                *)
(***************************************************************************)
LAt(img, p) == IF p \in DOMAIN img.px THEN img.px[p] ELSE img.dflt

Uniform(w, h, v) == [w |-> w, h |-> h, dflt |-> v, px |-> <<>>]

\* What rembg's remove does for each decodable content: it returns an image
\* whose alpha channel, of the size of the input, is mask, or it raises.
\* One of these per session: in the first every call returns, in the second
\* the call for the content A1 raises.
ModelOutputs ==
    LET sz(b) == ImageSize(b)
        flat(v) == [b \in Contents \ {"X"} |->
                      [raises |-> FALSE, mask |-> Uniform(sz(b)[1], sz(b)[2], v)]]
        good == [flat(255) EXCEPT !["A1"].mask.px = (<<1, 1>> :> 127) @@ (<<2, 1>> :> 128),
                                  !["A2"].mask.dflt = 128,
                                  !["B"].mask.px = (<<1, 1>> :> 127)]
    IN  {good, [good EXCEPT !["A1"].raises = TRUE]}

(***************************************************************************)
(* State.                                                                  *)
(***************************************************************************)
VARIABLES
    uploaded_files,  \* the file uploader's value: a sequence of files
    max_width,       \* the sidebar's number input
    mode,            \* the brush mode radio: "keep" (green) or "remove" (red)
    session_state,   \* st.session_state: state key -> [keep, remove]
    cache,           \* st.cache_data of get_rgba_and_mask: key -> mask_L
    canvas,          \* the drawing widgets: canvas key -> snapshot [w, h, ink]
    rembg,           \* the segmentation model: content -> [raises, mask]
    pc,              \* "idle", or "running" the script
    idx,             \* position of the run in uploaded_files
    pressed,         \* what started the run: a button's click, a rerun
    rendered,        \* the widgets the run has rendered so far
    canvas_args,     \* canvas key -> the size the run rendered the canvas at
    report,          \* what the run has shown: errors, results, exception
    segCalls,        \* history: executions of get_rgba_and_mask's body
    segReturns,      \* history: executions that returned
    users,           \* history: state key -> contents the state was used for
    uploads,         \* uploads made so far
    strokes,         \* strokes drawn so far
    call             \* the call of a pure function under check (see below)

vars == <<uploaded_files, max_width, mode, session_state, cache, canvas, rembg,
          pc, idx, pressed, rendered, canvas_args, report, segCalls, segReturns,
          users, uploads, strokes, call>>

session == <<uploaded_files, max_width, mode, session_state, cache, canvas, rembg,
             pc, idx, pressed, rendered, canvas_args, report, segCalls, segReturns,
             users, uploads, strokes>>

NoButton == <<"none", "">>
NoCall == [fn |-> "none"]
EmptyReport == [errors |-> {}, shown |-> {}, exception |-> "", refined |-> <<>>]

CacheKeys == (Contents \ {"X"}) \X {"u2net"}

Put(f, k, v) == [x \in DOMAIN f \cup {k} |-> IF x = k THEN v ELSE f[x]]
Drop(f, k) == [x \in DOMAIN f \ {k} |-> f[x]]
Min(a, b) == IF a < b THEN a ELSE b

\* lines 23-24 and the widgets' defaults
Init ==
    /\ uploaded_files = <<>>
    /\ max_width = 0
    /\ mode = "keep"
    /\ session_state = <<>>
    /\ cache = <<>>
    /\ canvas = <<>>
    /\ rembg \in ModelOutputs
    /\ pc = "idle"
    /\ idx = 1
    /\ pressed = NoButton
    /\ rendered = {}
    /\ canvas_args = <<>>
    /\ report = EmptyReport
    /\ segCalls = [k \in CacheKeys |-> 0]
    /\ segReturns = [k \in CacheKeys |-> 0]
    /\ users = [n \in Names |-> {}]
    /\ uploads = 0
    /\ strokes = 0
    /\ call = NoCall

(***************************************************************************)
(* One iteration of the loop over uploaded_files (lines 100-260).  The     *)
(* iteration works on a record c of the values it may change, with         *)
(* c.flow = "run" while the iteration goes on, "continue" after the        *)
(* `continue` of line 108, "raise" once an exception has left the script   *)
(* and "rerun" after st.rerun().                                           *)
(***************************************************************************)
Raise(c, what) == [c EXCEPT !.flow = "raise", !.report.exception = what]

\* lines 102-108
decode(c, i, file) ==
    IF Decodable(file.bytes) THEN c
    ELSE [c EXCEPT !.report.errors = @ \cup {i}, !.flow = "continue"]

\* a cache that never answers
CacheMiss(c, key) == FALSE

\* st.cache_data: the call is answered from the cache
CacheHit(c, key) == key \in DOMAIN c.cache

\* lines 34-45 and 112: an exception of remove leaves the script, and
\* st.cache_data stores nothing for a call that raised
get_rgba_and_mask(c, file) ==
    LET key == <<file.bytes, "u2net">>
        run == [c EXCEPT !.segCalls[key] = Min(@ + 1, MaxSegCalls)]
    IN  IF c.flow # "run" \/ CacheHit(c, key) THEN c
        ELSE IF rembg[file.bytes].raises THEN Raise(run, "SegmentationError")
        ELSE [run EXCEPT !.cache = Put(@, key, rembg[file.bytes].mask),
                         !.segReturns[key] = Min(@ + 1, MaxSegCalls)]

\* lines 52-65, as far as sizes go: the size of the PNG, or <<0, 0>> when
\* resize (a zero height) or paste (a mask of another size) raises ValueError
compose_result_size(w, h, mask_w, mask_h, mw) ==
    LET new == compose_size(w, h, mw)
    IN  IF new # <<w, h>>
        THEN IF new[2] = 0 THEN <<0, 0>> ELSE new
        ELSE IF <<mask_w, mask_h>> # <<w, h>> THEN <<0, 0>> ELSE new

\* lines 115-130
initial_result(c, i, file) ==
    LET sz == OrigSize[file.bytes]
        mask_L == c.cache[<<file.bytes, "u2net">>]
        out == compose_result_size(sz[1], sz[2], mask_L.w, mask_L.h, max_width)
    IN  IF c.flow # "run" THEN c
        ELSE IF out = <<0, 0>> THEN Raise(c, "ValueError")
        ELSE [c EXCEPT !.report.shown = @ \cup {i}]

\* lines 137-148: the resize of line 146 raises for a zero height
canvas_background(c, file) ==
    LET sz == OrigSize[file.bytes]
        cs == CanvasSize[file.bytes]
    IN  IF c.flow = "run" /\ sz[1] # cs[1] /\ cs[2] = 0 THEN Raise(c, "ValueError")
        ELSE c

\* bg_np_for_diff[p]: the original, or its LANCZOS resize; the one image of
\* the catalogue that is resized is of one colour, and so is its resize
bg_np_for_diff(bytes, p) == OrigPixel(bytes, p)

\* lines 154-160
state_init(c, file) ==
    LET sz == OrigSize[file.bytes]
        cs == CanvasSize[file.bytes]
        state_key == file.name
        fresh == [keep |-> zeros_hw(cs[2], cs[1]), remove |-> zeros_hw(cs[2], cs[1])]
    IN  IF c.flow # "run" THEN c
        ELSE [c EXCEPT !.ss = IF state_key \in DOMAIN @ THEN @ ELSE Put(@, state_key, fresh),
                       !.users[state_key] = @ \cup {file.bytes}]

\* lines 164-167: the slider and the radio have no key, so Streamlit gives
\* them the same widget ID in every iteration and raises DuplicateWidgetID
\* the second time a run reaches them
brush_widgets(c) ==
    IF c.flow # "run" THEN c
    ELSE IF <<"brush", "">> \in c.rendered THEN Raise(c, "DuplicateWidgetID")
    ELSE [c EXCEPT !.rendered = @ \cup {<<"brush", "">>}]

\* a reset that forgets the remove mask
clear_keep_only(st) == [keep |-> FillFalse(st.keep), remove |-> st.remove]

\* lines 170-171
clear_masks(st) == [keep |-> FillFalse(st.keep), remove |-> FillFalse(st.remove)]

\* lines 169-172
clear_button(c, file, button) ==
    LET state_key == file.name
        shown == [c EXCEPT !.rendered = @ \cup {<<"clear", file.name>>}]
    IN  IF c.flow # "run" THEN c
        ELSE IF button = <<"clear", file.name>>
        THEN [shown EXCEPT !.ss[state_key] = clear_masks(@), !.flow = "rerun"]
        ELSE shown

(***************************************************************************)
(* The canvas and the stroke merge.                                        *)
(***************************************************************************)
\* background_color="#00000000": a pixel the user has not painted
Unpainted == <<0, 0, 0>>

\* canvas_result.image_data.astype("uint8")[:, :, :3] at p
SnapshotRGB(snap, p) == IF p \in DOMAIN snap.ink THEN snap.ink[p] ELSE Unpainted

\* uint8 arithmetic wraps
U8(v) == v % 256

\* lines 197 and 200-201, for one pixel
diff(rgb, bg) == rgb # bg
is_green(rgb, bg) ==
    diff(rgb, bg) /\ rgb[2] > U8(rgb[1] + 50) /\ rgb[2] > U8(rgb[3] + 50) /\ rgb[2] > 150
is_red(rgb, bg) ==
    diff(rgb, bg) /\ rgb[1] > U8(rgb[2] + 50) /\ rgb[1] > U8(rgb[3] + 50) /\ rgb[1] > 150

\* The arrays is_green and is_red of a snapshot.  An unpainted pixel is
\* transparent black, which neither test accepts, so both arrays are false
\* outside the painted pixels.
classify(snap, bytes) ==
    [green |-> [w |-> snap.w, h |-> snap.h, fill |-> FALSE,
                px |-> {p \in DOMAIN snap.ink :
                          is_green(SnapshotRGB(snap, p), bg_np_for_diff(bytes, p))}],
     red   |-> [w |-> snap.w, h |-> snap.h, fill |-> FALSE,
                px |-> {p \in DOMAIN snap.ink :
                          is_red(SnapshotRGB(snap, p), bg_np_for_diff(bytes, p))}]]

\* a merge that assigns the snapshot's masks instead of accumulating them
merge_assign(st, delta) ==
    [keep |-> [st.keep EXCEPT !.px = BroadcastPx(delta.green, st.keep.w, st.keep.h)],
     remove |-> [st.remove EXCEPT !.px = BroadcastPx(delta.red, st.remove.w, st.remove.h)]]

\* a merge that toggles the snapshot's pixels instead of setting them
merge_toggle(st, delta) ==
    LET green == BroadcastPx(delta.green, st.keep.w, st.keep.h)
        red == BroadcastPx(delta.red, st.remove.w, st.remove.h)
    IN  [keep |-> [st.keep EXCEPT !.px = (@ \ green) \cup (green \ @)],
         remove |-> [st.remove EXCEPT !.px = (@ \ red) \cup (red \ @)]]

\* lines 203-204
merge(st, delta) ==
    [keep |-> InPlaceOr(st.keep, delta.green), remove |-> InPlaceOr(st.remove, delta.red)]

\* lines 178-204.  The widget answers None until it has reported a snapshot
\* for the size it is rendered at; a widget rendered at another size than
\* its snapshot's starts anew.
canvas_and_merge(c, file) ==
    LET sz == OrigSize[file.bytes]
        cs == CanvasSize[file.bytes]
        key == file.name
        has == key \in DOMAIN c.canvas
        fits == has /\ <<c.canvas[key].w, c.canvas[key].h>> = cs
        shown == [c EXCEPT !.rendered = @ \cup {<<"canvas", key>>},
                           !.canvas_args = Put(@, key, cs),
                           !.canvas = IF has /\ ~fits THEN Drop(@, key) ELSE @]
        delta == classify(c.canvas[key], file.bytes)
    IN  IF c.flow # "run" THEN c
        ELSE IF ~fits THEN shown
        ELSE IF ~BroadcastsInto(delta.green, c.ss[key].keep) THEN Raise(shown, "ValueError")
        ELSE [shown EXCEPT !.ss[key] = merge(@, delta)]

(***************************************************************************)
(* Apply (lines 207-242).                                                  *)
(***************************************************************************)
\* the size of to_orig(mask_small), lines 211-216
to_orig_size(mask_small, cs, sz) ==
    IF cs # sz THEN sz ELSE <<mask_small.w, mask_small.h>>

\* (mask_small * 255).astype("uint8"), for one pixel (line 212)
to_uint8(v) == U8((IF v THEN 1 ELSE 0) * 255)

\* np.array(img, dtype="uint8") >= 128
threshold(v) == v >= 128

\* np.array(to_orig(mask_small)) >= 128 (lines 211-216 and 226-227): the mask
\* as 0/255, resized with NEAREST when the canvas is not of the original's
\* size, thresholded
to_orig_bool(mask_small, cs, sz) ==
    LET size == to_orig_size(mask_small, cs, sz)
        fill == threshold(to_uint8(mask_small.fill))
        marked == {p \in mask_small.px : threshold(to_uint8(At(mask_small, p))) # fill}
    IN  [w |-> size[1], h |-> size[2], fill |-> fill,
         px |-> IF cs # sz
                THEN NearestPreimage(marked, mask_small.w, mask_small.h, sz[1], sz[2])
                ELSE marked]

\* lines 222-223: mask_L resized (NEAREST) to the original's size, thresholded
base_bool(mask_L, sz) ==
    LET fill == threshold(mask_L.dflt)
        marked == {p \in DOMAIN mask_L.px : threshold(mask_L.px[p]) # fill}
    IN  [w |-> sz[1], h |-> sz[2], fill |-> fill,
         px |-> NearestPreimage(marked, mask_L.w, mask_L.h, sz[1], sz[2])]

\* a refinement in which keep wins over remove
refine_keep_wins(fg, keep, remove) == (fg /\ ~remove) \/ keep

\* line 228, for one pixel
refine_pixel(fg, keep, remove) == (fg \/ keep) /\ ~remove

\* line 228: (fg_bool | keep_bool) & (~remove_bool), for arrays that broadcast
refine_mask(fg_bool, keep_bool, remove_bool) ==
    LET w == BroadcastW(fg_bool, keep_bool)
        h == BroadcastH(fg_bool, keep_bool)
        fill == refine_pixel(fg_bool.fill, keep_bool.fill, remove_bool.fill)
        marked == BroadcastPx(fg_bool, w, h) \cup BroadcastPx(keep_bool, w, h)
                    \cup BroadcastPx(remove_bool, w, h)
    IN  [w |-> w, h |-> h, fill |-> fill,
         px |-> {p \in marked :
                   refine_pixel(BroadcastAt(fg_bool, p), BroadcastAt(keep_bool, p),
                                BroadcastAt(remove_bool, p)) # fill}]

\* an apply that stores its final mask in the state's keep array
apply_in_place(c, i, file) ==
    LET sz == OrigSize[file.bytes]
        cs == CanvasSize[file.bytes]
        ref == c.ss[file.name]
        mask_L == c.cache[<<file.bytes, "u2net">>]
        final == refine_mask(base_bool(mask_L, sz), to_orig_bool(ref.keep, cs, sz),
                             to_orig_bool(ref.remove, cs, sz))
        result == [name |-> file.name, bytes |-> file.bytes, keep |-> ref.keep,
                   remove |-> ref.remove, mask_L |-> mask_L, final |-> final,
                   size |-> compose_result_size(sz[1], sz[2], final.w, final.h, max_width)]
    IN  [c EXCEPT !.report.refined = Put(@, i, result),
                  !.ss[file.name].keep =
                      IF <<@.w, @.h>> = <<final.w, final.h>> /\ cs = sz
                      THEN [@ EXCEPT !.px = {p \in Grid(final.w, final.h) : At(final, p)}]
                      ELSE @]

\* lines 208-242: the handler of the apply button
apply_refine(c, i, file) ==
    LET sz == OrigSize[file.bytes]
        cs == CanvasSize[file.bytes]
        ref == c.ss[file.name]
        mask_L == c.cache[<<file.bytes, "u2net">>]
        keep_bool == to_orig_bool(ref.keep, cs, sz)
        remove_bool == to_orig_bool(ref.remove, cs, sz)
        fg_bool == base_bool(mask_L, sz)
        final == refine_mask(fg_bool, keep_bool, remove_bool)
        out == compose_result_size(sz[1], sz[2], final.w, final.h, max_width)
        result == [name |-> file.name, bytes |-> file.bytes, keep |-> ref.keep,
                   remove |-> ref.remove, mask_L |-> mask_L, final |-> final,
                   size |-> out]
        done == [c EXCEPT !.report.refined = Put(@, i, result)]
    IN  IF ~BroadcastsWith(fg_bool, keep_bool) THEN Raise(c, "ValueError")
        ELSE IF out = <<0, 0>> THEN Raise(done, "ValueError")
        ELSE done

\* lines 207-242
apply_button(c, i, file, button) ==
    LET shown == [c EXCEPT !.rendered = @ \cup {<<"apply", file.name>>}]
    IN  IF c.flow # "run" THEN c
        ELSE IF button # <<"apply", file.name>> THEN shown
        ELSE apply_refine(shown, i, file)

(***************************************************************************)
(* The script's runs.                                                      *)
(***************************************************************************)
Context ==
    [ss |-> session_state, cache |-> cache, canvas |-> canvas,
     rendered |-> rendered, canvas_args |-> canvas_args, report |-> report,
     segCalls |-> segCalls, segReturns |-> segReturns, users |-> users,
     flow |-> "run"]

\* Streamlit starts the script from the top: no widget rendered yet, nothing
\* shown yet; with no file uploaded the script ends at once (lines 262-263).
BeginRun(files, button) ==
    /\ pc' = IF files = <<>> THEN "idle" ELSE "running"
    /\ pressed' = IF files = <<>> THEN NoButton ELSE button
    /\ idx' = 1
    /\ rendered' = {}
    /\ canvas_args' = <<>>
    /\ report' = EmptyReport

\* One iteration of the loop of line 100: the statements of the loop's body
\* in order, c1..c9 the values after each.  An exception ends the run;
\* st.rerun() starts the script again, with no button pressed: `pressed`
\* then tells that the clear handler of the file's key started the run.
ProcessFile ==
    /\ pc = "running"
    /\ idx <= Len(uploaded_files)
    /\ \E file \in {uploaded_files[idx]} :
       \E c1 \in {decode(Context, idx, file)} :
       \E c2 \in {get_rgba_and_mask(c1, file)} :
       \E c3 \in {initial_result(c2, idx, file)} :
       \E c4 \in {canvas_background(c3, file)} :
       \E c5 \in {state_init(c4, file)} :
       \E c6 \in {brush_widgets(c5)} :
       \E c7 \in {clear_button(c6, file, pressed)} :
       \E c8 \in {canvas_and_merge(c7, file)} :
       \E c9 \in {apply_button(c8, idx, file, pressed)} :
         LET last == idx = Len(uploaded_files)
             stop == c9.flow = "raise" \/ last
         IN  /\ session_state' = c9.ss
             /\ cache' = c9.cache
             /\ canvas' = c9.canvas
             /\ segCalls' = c9.segCalls
             /\ segReturns' = c9.segReturns
             /\ users' = c9.users
             /\ IF c9.flow = "rerun"
                THEN BeginRun(uploaded_files, <<"rerun", file.name>>)
                ELSE /\ pc' = IF stop THEN "idle" ELSE "running"
                     /\ pressed' = IF stop THEN NoButton ELSE pressed
                     /\ idx' = IF c9.flow = "raise" THEN idx ELSE idx + 1
                     /\ rendered' = c9.rendered
                     /\ canvas_args' = c9.canvas_args
                     /\ report' = c9.report
    /\ UNCHANGED <<uploaded_files, max_width, mode, rembg, uploads, strokes, call>>

(***************************************************************************)
(* The user's interactions; each starts a run of the script.               *)
(***************************************************************************)
RECURSIVE SeqsUpTo(_, _)
SeqsUpTo(S, n) ==
    IF n = 0 THEN {<<>>}
    ELSE LET shorter == SeqsUpTo(S, n - 1)
         IN  shorter \cup {Append(s, x) : s \in shorter, x \in S}

Batches == SeqsUpTo(Catalogue, MaxFiles)

\* the values of the sidebar's number input the model tries
MaxWidths == {0, 1, CANVAS_MAX_W}

\* the pixels of a canvas the user paints: its two ends
PaintSpots(size) == {<<1, 1>>, <<size[1], size[2]>>}

\* lines 89-93
Upload(files) ==
    /\ pc = "idle"
    /\ uploads < MaxUploads
    /\ uploaded_files' = files
    /\ uploads' = uploads + 1
    /\ BeginRun(files, NoButton)
    /\ UNCHANGED <<max_width, mode, session_state, cache, canvas, rembg,
                   segCalls, segReturns, users, strokes, call>>

\* lines 78-82
SetMaxWidth(m) ==
    /\ pc = "idle"
    /\ m # max_width
    /\ max_width' = m
    /\ BeginRun(uploaded_files, NoButton)
    /\ UNCHANGED <<uploaded_files, mode, session_state, cache, canvas, rembg,
                   segCalls, segReturns, users, uploads, strokes, call>>

\* lines 166-167
SetMode ==
    /\ pc = "idle"
    /\ <<"brush", "">> \in rendered
    /\ mode' = IF mode = "keep" THEN "remove" ELSE "keep"
    /\ BeginRun(uploaded_files, NoButton)
    /\ UNCHANGED <<uploaded_files, max_width, session_state, cache, canvas, rembg,
                   segCalls, segReturns, users, uploads, strokes, call>>

\* line 164: a move of the brush slider changes nothing the masks depend on
MoveSlider ==
    /\ pc = "idle"
    /\ <<"brush", "">> \in rendered
    /\ BeginRun(uploaded_files, NoButton)
    /\ UNCHANGED <<uploaded_files, max_width, mode, session_state, cache, canvas,
                   rembg, segCalls, segReturns, users, uploads, strokes, call>>

\* line 174
draw_color == IF mode = "keep" THEN Green ELSE Red

\* lines 178-190: the user paints pixel p with the brush; the widget reports
\* the snapshot with all the ink drawn so far on the canvas it shows
Draw(key, p) ==
    /\ pc = "idle"
    /\ strokes < MaxStrokes
    /\ key \in DOMAIN canvas_args
    /\ canvas' = IF key \in DOMAIN canvas
                  THEN [canvas EXCEPT ![key].ink = Put(@, p, draw_color)]
                  ELSE Put(canvas, key, [w |-> canvas_args[key][1],
                                         h |-> canvas_args[key][2],
                                         ink |-> Put(<<>>, p, draw_color)])
    /\ strokes' = strokes + 1
    /\ BeginRun(uploaded_files, NoButton)
    /\ UNCHANGED <<uploaded_files, max_width, mode, session_state, cache, rembg,
                   segCalls, segReturns, users, uploads, call>>

\* line 169
Clear(key) ==
    /\ pc = "idle"
    /\ <<"clear", key>> \in rendered
    /\ BeginRun(uploaded_files, <<"clear", key>>)
    /\ UNCHANGED <<uploaded_files, max_width, mode, session_state, cache, canvas,
                   rembg, segCalls, segReturns, users, uploads, strokes, call>>

\* line 207
Apply(key) ==
    /\ pc = "idle"
    /\ <<"apply", key>> \in rendered
    /\ BeginRun(uploaded_files, <<"apply", key>>)
    /\ UNCHANGED <<uploaded_files, max_width, mode, session_state, cache, canvas,
                   rembg, segCalls, segReturns, users, uploads, strokes, call>>

Next ==
    \/ ProcessFile
    \/ \E files \in Batches : Upload(files)
    \/ \E m \in MaxWidths : SetMaxWidth(m)
    \/ SetMode
    \/ MoveSlider
    \/ \E key \in DOMAIN canvas_args : \E p \in PaintSpots(canvas_args[key]) : Draw(key, p)
    \/ \E key \in Names : Clear(key)
    \/ \E key \in Names : Apply(key)

Spec == Init /\ [][Next]_vars

(***************************************************************************)
(* The size computations alone (lines 52-55 and 137-143), called with      *)
(* arguments drawn from small sets.  `call` holds the one call made and    *)
(* its result; the session does not move.                                  *)
(***************************************************************************)
SizeWidths == {1, 2, 22, 1024, 1025, 1122, 2000, 2048}
SizeHeights == {1, 2, 22, 561, 1000}
SizeBounds == {0, 1, 15, 1024}

CallComposeSize(w, h, m) ==
    /\ call = NoCall
    /\ call' = [fn |-> "compose_size", w |-> w, h |-> h, max_width |-> m,
                result |-> compose_size(w, h, m)]
    /\ UNCHANGED session

CallCanvasSize(w, h) ==
    /\ call = NoCall
    /\ call' = [fn |-> "canvas_size", w |-> w, h |-> h, max_width |-> CANVAS_MAX_W,
                result |-> canvas_size(w, h)]
    /\ UNCHANGED session

SizeNext ==
    \/ \E w \in SizeWidths, h \in SizeHeights, m \in SizeBounds : CallComposeSize(w, h, m)
    \/ \E w \in SizeWidths, h \in SizeHeights : CallCanvasSize(w, h)

SizeSpec == Init /\ [][SizeNext]_vars

(***************************************************************************)
(* compose_on_background alone (lines 47-65), on small images.  An RGB     *)
(* image is [w, h, px], px giving the colour of every pixel.               *)
(***************************************************************************)
White == <<255, 255, 255>>

\* Image.fromarray((fg_bool * 255).astype("uint8"), mode="L") (line 230), for
\* the boolean mask that is true on the pixels `on`
mask_image(w, h, on) == [w |-> w, h |-> h, dflt |-> 0, px |-> [p \in on |-> to_uint8(TRUE)]]

\* a blend that takes the mask the wrong way round
paste_channel_inverted(src, dst, m) ==
    LET tmp == src * (255 - m) + dst * m + 128
    IN  ((tmp \div 256) + tmp) \div 256

\* Image.paste(im, mask=...), one channel of one pixel: src over dst through
\* the mask value m
paste_channel(src, dst, m) ==
    LET tmp == src * m + dst * (255 - m) + 128
    IN  ((tmp \div 256) + tmp) \div 256

paste_pixel(src, dst, m) ==
    <<paste_channel(src[1], dst[1], m), paste_channel(src[2], dst[2], m),
      paste_channel(src[3], dst[3], m)>>

\* mask_L.resize((w, h), Image.NEAREST) (line 57)
resize_nearest(img, w, h) ==
    LET from(q) == NearestPixel(q, img.w, img.h, w, h)
    IN  [w |-> w, h |-> h, dflt |-> img.dflt,
         px |-> [q \in {g \in Grid(w, h) : from(g) \in DOMAIN img.px} |-> img.px[from(q)]]]

ComposeError == [error |-> "ValueError", w |-> 0, h |-> 0, px |-> <<>>]

\* lines 47-65; `resized` is what orig_rgb.resize(..., Image.LANCZOS) returns
\* when the image is resized
compose_on_background(orig_rgb, mask_L, bg_color, mw, resized) ==
    LET scaled == mw > 0 /\ orig_rgb.w > mw
        new == compose_size(orig_rgb.w, orig_rgb.h, mw)
        rgb == IF scaled THEN resized ELSE orig_rgb
        mask == IF scaled THEN resize_nearest(mask_L, new[1], new[2]) ELSE mask_L
    IN  IF scaled /\ new[2] = 0 THEN ComposeError
        ELSE IF <<mask.w, mask.h>> # <<rgb.w, rgb.h>> THEN ComposeError
        ELSE [error |-> "", w |-> rgb.w, h |-> rgb.h,
              px |-> [p \in Grid(rgb.w, rgb.h) |->
                        paste_pixel(rgb.px[p], bg_color, LAt(mask, p))]]

\* the images, colours and widths the calls are made with
ComposeSizes == {<<1, 1>>, <<2, 1>>, <<2, 2>>}
Palette == {Green, Grey}
Backgrounds == {White, Red}
ComposeWidths == {0, 1}

Images(size) == {[w |-> size[1], h |-> size[2], px |-> f] :
                   f \in [Grid(size[1], size[2]) -> Palette]}

\* what the LANCZOS resize may return: some image of the new size
Resizes(orig_rgb, mw) ==
    LET new == compose_size(orig_rgb.w, orig_rgb.h, mw)
    IN  IF mw > 0 /\ orig_rgb.w > mw /\ new[2] > 0 THEN Images(new) ELSE {orig_rgb}

CallCompose(orig_rgb, on, bg_color, mw, resized) ==
    /\ call = NoCall
    /\ call' = [fn |-> "compose", orig_rgb |-> orig_rgb, on |-> on,
                bg_color |-> bg_color, max_width |-> mw, resized |-> resized,
                result |-> compose_on_background(
                             orig_rgb, mask_image(orig_rgb.w, orig_rgb.h, on),
                             bg_color, mw, resized)]
    /\ UNCHANGED session

ComposeNext ==
    \E size \in ComposeSizes, bg_color \in Backgrounds, mw \in ComposeWidths :
      \E orig_rgb \in Images(size), on \in SUBSET Grid(size[1], size[2]) :
        \E resized \in Resizes(orig_rgb, mw) :
          CallCompose(orig_rgb, on, bg_color, mw, resized)

ComposeSpec == Init /\ [][ComposeNext]_vars

(***************************************************************************)
(* The classification of one snapshot pixel alone (lines 197-201): rgb is  *)
(* the pixel of the snapshot, bg the pixel of bg_np_for_diff.              *)
(***************************************************************************)
\* the values the channels of a snapshot pixel are drawn from
Channels == {0, 100, 151, 200, 210, 255}
Pixels == Channels \X Channels \X Channels

\* the background pixels tried with a snapshot pixel: the pixel itself, the
\* two inks and three others
BgPixels(rgb) == {rgb, Green, Red, Grey, White, Unpainted}

CallClassify(rgb, bg) ==
    /\ call = NoCall
    /\ call' = [fn |-> "classify", rgb |-> rgb, bg |-> bg,
                is_green |-> is_green(rgb, bg), is_red |-> is_red(rgb, bg)]
    /\ UNCHANGED session

ClassifyNext == \E rgb \in Pixels : \E bg \in BgPixels(rgb) : CallClassify(rgb, bg)

ClassifySpec == Init /\ [][ClassifyNext]_vars

(***************************************************************************)
(* The stroke merge as a function (lines 193-204): a snapshot folded into  *)
(* a state once, and the same snapshot folded into the result again, as   *)
(* the next run of the script does when the user has painted nothing new. *)
(***************************************************************************)
\* the images whose canvases the snapshots and the states come from
MergeContents == {"A1", "A2"}

\* the colours of ink on a snapshot: the two brushes, and one colour that
\* lines 200-201 take for both
InkColours == {Green, Red, <<151, 210, 0>>}

\* the boolean arrays of a size
Masks(size) == {[w |-> size[1], h |-> size[2], fill |-> FALSE, px |-> px] :
                  px \in SUBSET Grid(size[1], size[2])}

\* st.session_state[state_key], made for a canvas of the size
States(size) == {[keep |-> k, remove |-> r] : k \in Masks(size), r \in Masks(size)}

\* canvas_result.image_data for a canvas of the size
Snapshots(size) ==
    {[w |-> size[1], h |-> size[2], ink |-> ink] :
       ink \in UNION {[px -> InkColours] : px \in SUBSET Grid(size[1], size[2])}}

\* lines 193-204 twice: the second run classifies the same snapshot against
\* the same background and folds it into the state the first run left
CallMerge(st, snap, bytes) ==
    /\ call = NoCall
    /\ BroadcastsInto(classify(snap, bytes).green, st.keep)
    /\ call' = [fn |-> "merge", st |-> st, snap |-> snap, bytes |-> bytes,
                once |-> merge(st, classify(snap, bytes)),
                twice |-> merge(merge(st, classify(snap, bytes)), classify(snap, bytes))]
    /\ UNCHANGED session

MergeNext ==
    \E bytes \in MergeContents : \E made \in MergeContents :
    \E snap \in Snapshots(CanvasSize[bytes]) : \E st \in States(CanvasSize[made]) :
      CallMerge(st, snap, bytes)

MergeSpec == Init /\ [][MergeNext]_vars

(***************************************************************************)
(* The initial result (line 115) and the refined result of an apply with   *)
(* no corrections (lines 208-232), for a one-pixel image whose alpha mask  *)
(* has the value alpha.                                                    *)
(***************************************************************************)
Alphas == 0..255

\* lines 222-230 for an image of the size sz: the mask the refined result
\* is composed with
refined_mask_L(mask_L, keep, remove, sz) ==
    LET fg_bool == refine_mask(base_bool(mask_L, sz), to_orig_bool(keep, sz, sz),
                               to_orig_bool(remove, sz, sz))
    IN  mask_image(fg_bool.w, fg_bool.h, {p \in Grid(fg_bool.w, fg_bool.h) : At(fg_bool, p)})

CallBaseOnly(alpha, colour, bg_color) ==
    LET sz == <<1, 1>>
        orig_rgb == [w |-> 1, h |-> 1, px |-> (<<1, 1>> :> colour)]
        mask_L == Uniform(1, 1, alpha)
    IN  /\ call = NoCall
        /\ call' = [fn |-> "base_only", alpha |-> alpha, colour |-> colour,
                    bg_color |-> bg_color,
                    initial |-> compose_on_background(orig_rgb, mask_L, bg_color, 0, orig_rgb),
                    refined |-> compose_on_background(
                                  orig_rgb,
                                  refined_mask_L(mask_L, zeros_hw(1, 1), zeros_hw(1, 1), sz),
                                  bg_color, 0, orig_rgb)]
        /\ UNCHANGED session

BaseOnlyNext ==
    \E alpha \in Alphas, colour \in Palette, bg_color \in Backgrounds :
      CallBaseOnly(alpha, colour, bg_color)

BaseOnlySpec == Init /\ [][BaseOnlyNext]_vars

(***************************************************************************)
(* Properties.                                                             *)
(***************************************************************************)
\* numpy's shape of an array, as (w, h)
Shape(a) == <<a.w, a.h>>

AllFalse(a) == \A p \in Grid(a.w, a.h) : ~At(a, p)

\* the step about to be taken is the run of a click on the clear button of
\* `key`, at the file of that name
ClearActs(key) ==
    pc = "running" /\ pressed = <<"clear", key>> /\ uploaded_files[idx].name = key

\* C1: a pixel of keep (of remove) that is true stays true through every step
\* of the session, the merges of later snapshots included, except the step in
\* which the clear button of that image acts.
C1_Monotonic ==
    [][\A key \in DOMAIN session_state :
         ~ClearActs(key) =>
           /\ key \in DOMAIN session_state'
           /\ \A p \in TruePixels(session_state[key].keep) :
                At(session_state'[key].keep, p)
           /\ \A p \in TruePixels(session_state[key].remove) :
                At(session_state'[key].remove, p)]_vars

\* A keep pixel that a later snapshot shows in red, and that the merge of that
\* snapshot has put into remove, is still in keep.
C1_Witness ==
    \E key \in DOMAIN session_state \cap DOMAIN canvas :
      \E p \in DOMAIN canvas[key].ink :
        /\ canvas[key].ink[p] = Red
        /\ At(session_state[key].remove, p)
        /\ At(session_state[key].keep, p)

\* C2: the mask apply computes has the original's size and, at every pixel q
\* of the original, is (alpha[q] >= 128 or keep at q) and not remove at q,
\* keep and remove being the accumulated masks resampled (nearest neighbour)
\* to the original's size.
C2_FinalMask ==
    \A i \in DOMAIN report.refined :
      LET r == report.refined[i]
          sz == ImageSize(r.bytes)
          base(q) == LAt(r.mask_L, q) >= 128
          resampled(a, q) == At(a, NearestPixel(q, a.w, a.h, sz[1], sz[2]))
      IN  /\ Shape(r.final) = sz
          /\ \A q \in Grid(sz[1], sz[2]) :
               At(r.final, q) = ((base(q) \/ resampled(r.keep, q)) /\ ~resampled(r.remove, q))

\* C3: in the mask apply computes, a pixel is false wherever the keep and the
\* remove masks it was computed from are both true at the pixel it reads.
C3_Precedence ==
    \A i \in DOMAIN report.refined :
      LET r == report.refined[i]
      IN  TruePixels(r.keep) \cap TruePixels(r.remove) # {} =>
            \A q \in Grid(r.final.w, r.final.h) :
              LET p == NearestPixel(q, r.keep.w, r.keep.h, r.final.w, r.final.h)
              IN  At(r.keep, p) /\ At(r.remove, p) => ~At(r.final, q)

\* Apply has run with a pixel in keep and in remove, read by a pixel of the
\* final mask at which the model's alpha is of the foreground.
C3_Witness ==
    \E i \in DOMAIN report.refined :
      LET r == report.refined[i]
      IN  /\ Shape(r.final) = Shape(r.mask_L)
          /\ \E q \in Grid(r.final.w, r.final.h) :
               LET p == NearestPixel(q, r.keep.w, r.keep.h, r.final.w, r.final.h)
               IN  At(r.keep, p) /\ At(r.remove, p) /\ threshold(LAt(r.mask_L, q))

C5_NoSharedState ==
    [][\A key \in DOMAIN session_state :
         (key \in DOMAIN session_state' /\ session_state'[key] # session_state[key]) =>
           users'[key] \subseteq {uploaded_files[idx].bytes}]_vars

\* C6: keep and remove of every state have the same shape, which is the size
\* of the canvas the run computes for the image shown under the state's key.
C6_Dimensions ==
    \A key \in DOMAIN session_state :
      /\ Shape(session_state[key].keep) = Shape(session_state[key].remove)
      /\ key \in DOMAIN canvas_args => Shape(session_state[key].keep) = canvas_args[key]

\* n / d rounded to the nearest integer, for n >= 0 and d > 0
Round(n, d) == (2 * n + d) \div (2 * d)

\* C7: for a bound M > 0 the bounded size of W x H is (W, H) when W <= M and
\* (M, round(H * M / W)) otherwise.
C7_BoundedSize ==
    (call.fn \in {"compose_size", "canvas_size"} /\ call.max_width > 0) =>
      call.result = IF call.w <= call.max_width THEN <<call.w, call.h>>
                    ELSE <<call.max_width, Round(call.h * call.max_width, call.w)>>

\* C8: the step in which the clear button of an image acts leaves keep and
\* remove of that image all false and of the shapes they had.
C8_Reset ==
    [][\A key \in DOMAIN session_state :
         ClearActs(key) =>
           /\ key \in DOMAIN session_state'
           /\ AllFalse(session_state'[key].keep)
           /\ AllFalse(session_state'[key].remove)
           /\ Shape(session_state'[key].keep) = Shape(session_state[key].keep)
           /\ Shape(session_state'[key].remove) = Shape(session_state[key].remove)]_vars

\* The clear button is about to act on masks that both hold a true pixel.
C8_Witness ==
    \E key \in DOMAIN session_state :
      /\ ClearActs(key)
      /\ ~AllFalse(session_state[key].keep)
      /\ ~AllFalse(session_state[key].remove)

\* C9: composing with a boolean mask of the image's size gives an image of
\* the (possibly resized) image's size in which every pixel is the pixel of
\* the (possibly resized) image where the (accordingly resampled) mask is true
\* and the background colour where it is false.
C9_Compositing ==
    (call.fn = "compose" /\ call.result.error = "") =>
      LET out == call.result
          rgb == call.resized
          masked(p) == NearestPixel(p, call.orig_rgb.w, call.orig_rgb.h, out.w, out.h)
                         \in call.on
      IN  /\ <<out.w, out.h>> = <<rgb.w, rgb.h>>
          /\ \A p \in Grid(out.w, out.h) :
               out.px[p] = IF masked(p) THEN rgb.px[p] ELSE call.bg_color

\* A 2 x 2 image composed, at its own size, through a mask that is true at
\* some pixels and false at others.
C9_Witness ==
    /\ call.fn = "compose"
    /\ call.result.error = ""
    /\ <<call.result.w, call.result.h>> = <<2, 2>>
    /\ call.on # {}
    /\ call.on # Grid(2, 2)

\* the file cannot be decoded, or its segmentation raises
Fails(file) == ~Decodable(file.bytes) \/ rembg[file.bytes].raises

\* C10: when a run has ended, every file of the batch that failed to decode or
\* to segment has its error reported, and every file after it in the batch
\* has been processed: its error reported or its result shown.
C10_BatchContinues ==
    pc = "idle" =>
      \A i \in 1..Len(uploaded_files) :
        Fails(uploaded_files[i]) =>
          /\ i \in report.errors \/ report.exception = "SegmentationError"
          /\ \A j \in (i + 1)..Len(uploaded_files) : j \in report.errors \cup report.shown

\* C11: a snapshot pixel of pure green is classified keep and one of pure
\* red is classified remove, whatever the background pixel, and a snapshot
\* pixel equal to the background pixel is classified neither.
C11_InkClassified ==
    call.fn = "classify" =>
      /\ call.rgb = Green => call.is_green
      /\ call.rgb = Red => call.is_red
      /\ call.rgb = call.bg => ~call.is_green /\ ~call.is_red

\* C14: a pixel is classified keep only if its green exceeds red + 50 and
\* blue + 50 as integers and 150, and remove only if its red exceeds
\* green + 50 and blue + 50 as integers and 150.
C14_TrueMargins ==
    call.fn = "classify" =>
      /\ call.is_green =>
           /\ call.rgb[2] > call.rgb[1] + 50
           /\ call.rgb[2] > call.rgb[3] + 50
           /\ call.rgb[2] > 150
      /\ call.is_red =>
           /\ call.rgb[1] > call.rgb[2] + 50
           /\ call.rgb[1] > call.rgb[3] + 50
           /\ call.rgb[1] > 150

\* C19: no pixel is classified both keep and remove.
C19_DeltasDisjoint ==
    call.fn = "classify" => ~(call.is_green /\ call.is_red)

\* C12: every mask apply computes has the size of the original image.
C12_FinalMaskSize ==
    \A i \in DOMAIN report.refined :
      Shape(report.refined[i].final) = ImageSize(report.refined[i].bytes)

\* C13: when keep and remove are all false, the mask apply computes is the
\* alpha mask resampled (nearest neighbour) to the original's size and
\* thresholded at 128.
C13_BaseOnly ==
    \A i \in DOMAIN report.refined :
      LET r == report.refined[i]
          sz == ImageSize(r.bytes)
          alpha(q) == LAt(r.mask_L, NearestPixel(q, r.mask_L.w, r.mask_L.h, sz[1], sz[2]))
      IN  (AllFalse(r.keep) /\ AllFalse(r.remove)) =>
            /\ Shape(r.final) = sz
            /\ \A q \in Grid(sz[1], sz[2]) : At(r.final, q) = (alpha(q) >= 128)

\* the step about to be taken is, in the run that st.rerun() started from
\* the clear handler of `key`, the iteration for the file of that name
RerunActs(key) ==
    pc = "running" /\ pressed = <<"rerun", key>> /\ uploaded_files[idx].name = key

\* C15: the re-execution that the clear action of an image triggers, in which
\* the canvas's current snapshot is merged and no new stroke is, leaves keep
\* and remove of that image all false.
C15_ResetDiscards ==
    [][\A key \in DOMAIN session_state :
         RerunActs(key) =>
           /\ key \in DOMAIN session_state'
           /\ AllFalse(session_state'[key].keep)
           /\ AllFalse(session_state'[key].remove)]_vars

\* the output downscaling of lines 54-55 gives the file a zero height
ZeroHeight(file) ==
    /\ Decodable(file.bytes)
    /\ compose_size(OrigSize[file.bytes][1], OrigSize[file.bytes][2], max_width)[2] = 0

\* C16: a zero height of the output is fatal for that image's output only:
\* the run that met it at one file still reaches the files after it, so an
\* undecodable file later in the batch has its error message
C16_FatalForThatImageOnly ==
    (/\ pc = "idle"
     /\ report.exception = "ValueError"
     /\ idx \in 1..Len(uploaded_files)
     /\ ZeroHeight(uploaded_files[idx]))
    => \A j \in (idx + 1)..Len(uploaded_files) :
         ~Decodable(uploaded_files[j].bytes) => j \in report.errors

\* C17: folding the same snapshot into a state a second time leaves keep
\* and remove exactly as they were after the first fold
C17_MergeIdempotent ==
    call.fn = "merge" => call.twice = call.once

\* a fold of a one-pixel snapshot that set pixels of a wider state (by
\* broadcasting), folded again
C17_Witness ==
    /\ call.fn = "merge"
    /\ call.snap.w # call.st.keep.w
    /\ call.once.keep # call.st.keep
    /\ call.once.remove # call.st.remove
    /\ TruePixels(call.st.keep) # {}

\* a run of the script that the apply button of file i starts from the
\* present state gives the file the refined results `refined`
SecondApply(i, refined) ==
    \E file \in {uploaded_files[i]} :
    \E c0 \in {[Context EXCEPT !.rendered = {}, !.canvas_args = <<>>,
                                !.report = EmptyReport]} :
    \E c1 \in {decode(c0, i, file)} :
    \E c2 \in {get_rgba_and_mask(c1, file)} :
    \E c3 \in {initial_result(c2, i, file)} :
    \E c4 \in {canvas_background(c3, file)} :
    \E c5 \in {state_init(c4, file)} :
    \E c6 \in {brush_widgets(c5)} :
    \E c7 \in {clear_button(c6, file, <<"apply", file.name>>)} :
    \E c8 \in {canvas_and_merge(c7, file)} :
    \E c9 \in {apply_button(c8, i, file, <<"apply", file.name>>)} :
      c9.report.refined = refined

\* C18: once the apply handler of a file has computed its result, the
\* masks of the file's state, the memoised alpha mask and the uploaded file
\* are what the handler read, and when the run has ended an apply pressed
\* next, with no interaction before it, gives the identical result
C18_ApplyReadOnly ==
    \A i \in DOMAIN report.refined :
      \E r \in {report.refined[i]} :
        /\ session_state[r.name].keep = r.keep
        /\ session_state[r.name].remove = r.remove
        /\ cache[<<r.bytes, "u2net">>] = r.mask_L
        /\ uploaded_files[i] = [name |-> r.name, bytes |-> r.bytes]
        /\ pc = "idle" => SecondApply(i, Put(<<>>, i, r))

\* an apply has computed a final mask that differs from the state's keep
\* mask, from a state with corrections of both kinds
C18_Witness ==
    \E i \in DOMAIN report.refined :
      /\ TruePixels(report.refined[i].keep) # {}
      /\ TruePixels(report.refined[i].remove) # {}
      /\ \E p \in Grid(report.refined[i].final.w, report.refined[i].final.h) :
            At(report.refined[i].final, p) # BroadcastAt(report.refined[i].keep, p)

\* C20: an apply with no corrections gives the pixels of the initial
\* result, whatever the alpha value of the mask
C20_BaseOnlyEqualsInitial ==
    call.fn = "base_only" => call.refined = call.initial

====
